---- MODULE Spec2Model ----
(***************************************************************************)
(* A model of forte's entry/relation core (forte/data/ontology/top.py):    *)
(* Span, Entry, Annotation, Link, Group, SubEntry, MultiPackLink, and of   *)
(* the store (data pack) that owns the entries.  The store's code is not   *)
(* part of the sources at hand; its operations (add_entry, get_entry,      *)
(* remove_entry, validate) follow the written specification.               *)
(*                                                                         *)
(* Python objects are records kept in `heap`; the position of a record in  *)
(* `heap` is the object's identity.  A call that raises leaves the state   *)
(* as it was and records the exception's name in `last.err`.               *)
(*                                                                         *)
(* The last part models Pipeline.process_dataset (nlp/pipeline/pipeline.py) *)
(* running the processors over the packs of a reader.                      *)
(***************************************************************************)
EXTENDS Integers, Sequences, FiniteSets, TLC

VARIABLES
    heap,         \* every Entry object constructed and registered so far
    entry_index,  \* per store: tid -> object (the mandatory id index)
    id_counter,   \* per store and class: the next serial number
    last,         \* the most recent call: its operation and the exception it raised
    added,        \* per object: the ids the add_members loop has taken so far (history)
    sp,           \* three Spans under comparison (SpanSpec)
    annotations,  \* per store: its annotations, kept in Annotation order
    link_index,   \* per store: the optional index of links by type
    pipe          \* the Pipeline: its processors, its packs, and where process_dataset stands

vars == <<heap, entry_index, id_counter, last, added, sp, annotations, link_index,
          pipe>>

----------------------------------------------------------------------------
(* Bounds *)

MaxEntries == 3   \* entries one run creates (Spec)
MaxGroupEntries == 2  \* entries one run creates (GroupSpec)
MaxPos == 0       \* annotations of the sub-stores end at an offset in 0..MaxPos (MultiSpec)
MaxBatch == 1     \* length of the iterable handed to add_members
MaxMultiEntries == 2  \* entries one run creates in the sub-stores (MultiSpec)
MaxSpanPos == 2   \* offsets of the Spans compared in SpanSpec
MaxAnnEntries == 2    \* annotations one run creates (AnnSpec)
MaxIndexEntries == 2  \* entries one run creates (IndexSpec)
MaxOwnerEntries == 2  \* entries one run creates (OwnerSpec)
MaxMultiLinkEntries == 2  \* entries one run creates (MultiLinkSpec)
MaxBatchEntries == 2  \* entries one run creates (BatchSpec)
MaxBatchLen == 2      \* length of the iterable handed to add_members (BatchSpec)
MaxProcessors == 2    \* processors added to the pipeline (PipeSpec)
MaxPacks == 2         \* packs the reader produces (PipeSpec)

----------------------------------------------------------------------------
(* Python values *)

None == "None"        \* an Optional[str] that is None
NoKey == <<>>         \* an Optional[Tuple[int, str]] that is None
NoErr == "none"

Ok(v) == [ok |-> TRUE, val |-> v, err |-> NoErr]
Err(e) == [ok |-> FALSE, val |-> <<>>, err |-> e]

----------------------------------------------------------------------------
(* The ontology: the classes of top.py and the schema-declared subclasses  *)
(* the model creates entries of.                                           *)

AnnotationClasses == {"PredicateMention", "PredicateArgument"}
LinkClasses == {"PredicateLink"}
GroupClasses == {"Group"}
MultiPackLinkClasses == {"MultiPackLink"}

BaseClass(c) ==
    CASE c \in AnnotationClasses -> "Annotation"
      [] c = "CoreferenceMention" -> "Annotation"
      [] c = "Annotation" -> "Entry"
      [] c \in LinkClasses -> "Link"
      [] c = "Link" -> "BaseLink"
      [] c = "MultiPackLink" -> "BaseLink"
      [] c = "BaseLink" -> "Entry"
      [] c = "CoreferenceGroup" -> "Group"
      [] c = "Group" -> "BaseGroup"
      [] c = "BaseGroup" -> "Entry"
      [] c = "SubEntry" -> "Entry"
      [] OTHER -> "object"

RECURSIVE Mro(_)
Mro(c) == IF c = "object" THEN {c} ELSE {c} \cup Mro(BaseClass(c))

isinstance(obj, cls) == cls \in Mro(obj.cls)

ParentType(c) ==
    CASE c = "PredicateLink" -> "PredicateMention"
      [] c = "MultiPackLink" -> "SubEntry"

ChildType(c) ==
    CASE c = "PredicateLink" -> "PredicateArgument"
      [] c = "MultiPackLink" -> "SubEntry"

member_type(c) ==
    CASE c = "CoreferenceGroup" -> "CoreferenceMention"
      [] OTHER -> "Entry"

get_full_module_name(obj) == obj.cls

----------------------------------------------------------------------------
(* Span *)

Span(begin, end) == [begin |-> begin, end |-> end]

\* Mutant of __lt__: the tie-break on end is left out.
Span_lt_begin_only(self, other) == self.begin < other.begin

Span_lt(self, other) ==
    IF self.begin = other.begin
    THEN self.end < other.end
    ELSE self.begin < other.begin

Span_eq(self, other) == <<self.begin, self.end>> = <<other.begin, other.end>>

----------------------------------------------------------------------------
(* The store, as far as the entries use it: construction-time validation,  *)
(* registration with id assignment, lookup by id, and removal.             *)

Packs == {"S0", "S1", "MP"}       \* two single-document stores, one container
SubStores == <<"S0", "S1">>       \* the container's sub-stores, by pack_index

Unset == "<unset>"                \* Entry._tid before set_tid

\* The text of each store's document, a character per offset.
PackText(pack) ==
    CASE pack = "S0" -> <<"a", "b">>
      [] pack = "S1" -> <<"c">>
      [] OTHER -> <<>>

validate(pack, entry) == entry.pack = pack

get_entry(pack, tid) ==
    IF tid \in DOMAIN entry_index[pack]
    THEN Ok(entry_index[pack][tid])
    ELSE Err("UnknownIdError")

next_id(pack, cls) == ToString(id_counter[pack][cls])

Handles == 1..Len(heap)

Registered(h) ==
    /\ heap[h].tid \in DOMAIN entry_index[heap[h].pack]
    /\ entry_index[heap[h].pack][heap[h].tid] = h

----------------------------------------------------------------------------
(* Entry *)

\* Mutant of __init__: the first store is recorded as the owner and the
\* entry is not handed to validate.
Entry_init_unvalidated(pack, cls) ==
    Ok([cls |-> cls, pack |-> "S0", tid |-> Unset])

Entry_init(pack, cls) ==
    LET self == [cls |-> cls, pack |-> pack, tid |-> Unset]
    IN  IF validate(pack, self) THEN Ok(self) ELSE Err("ValueError")

\* Mutant of set_tid: the class name is not made part of the tid.
Entry_set_tid_bare(self, tid) == [self EXCEPT !.tid = tid]

Entry_set_tid(self, tid) ==
    [self EXCEPT !.tid = get_full_module_name(self) \o "." \o tid]

Entry_index_key(self) == self.tid

----------------------------------------------------------------------------
(* Annotation *)

Annotation_init(pack, cls, begin, end) ==
    LET r == Entry_init(pack, cls)
    IN  IF r.ok THEN Ok(r.val @@ [span |-> Span(begin, end)]) ELSE r

Annotation_set_span(self, begin, end) == [self EXCEPT !.span = Span(begin, end)]

Annotation_eq(self, other) ==
    <<self.cls, self.span.begin, self.span.end>>
        = <<other.cls, other.span.begin, other.span.end>>

\* text[begin:end] of a Python str, for offsets that are not negative.
Min(a, b) == IF a < b THEN a ELSE b

Slice(text, begin, end) ==
    SubSeq(text, Min(begin, Len(text)) + 1, Min(end, Len(text)))

\* Mutant of text: the character at end is taken too.
Annotation_text_inclusive(self) ==
    IF self.pack = None
    THEN Err("ValueError")
    ELSE Ok(Slice(PackText(self.pack), self.span.begin, self.span.end + 1))

Annotation_text(self) ==
    IF self.pack = None
    THEN Err("ValueError")
    ELSE Ok(Slice(PackText(self.pack), self.span.begin, self.span.end))

\* str(type(x)) < str(type(y)): the class names in alphabetical order.
TypeStrRank(c) ==
    CASE c = "PredicateArgument" -> 1
      [] c = "PredicateMention" -> 2

Annotation_lt(self, other) ==
    IF ~Span_eq(self.span, other.span)
    THEN Span_lt(self.span, other.span)
    ELSE TypeStrRank(self.cls) < TypeStrRank(other.cls)

----------------------------------------------------------------------------
(* Link.  A mutator yields the receiver as the call leaves it and the      *)
(* exception it raised, if any.                                            *)

Done(self) == [self |-> self, err |-> NoErr]
Raised(self, e) == [self |-> self, err |-> e]

\* Mutants of set_parent: the link moves to the store of its parent; the
\* parent's type is stored in place of its tid; no isinstance check.
Link_set_parent_adopting(self, parent) ==
    IF ~isinstance(parent, ParentType(self.cls))
    THEN Raised(self, "TypeError")
    ELSE Done([self EXCEPT !.parent = parent.tid, !.pack = parent.pack])

Link_set_parent_by_type(self, parent) ==
    IF ~isinstance(parent, ParentType(self.cls))
    THEN Raised(self, "TypeError")
    ELSE Done([self EXCEPT !.parent = parent.cls])

Link_set_parent_unchecked(self, parent) ==
    IF "tid" \in DOMAIN parent
    THEN Done([self EXCEPT !.parent = parent.tid])
    ELSE Raised(self, "AttributeError")

Link_set_parent(self, parent) ==
    IF ~isinstance(parent, ParentType(self.cls))
    THEN Raised(self, "TypeError")
    ELSE Done([self EXCEPT !.parent = parent.tid])

\* Mutant of set_child: the assignment comes before the isinstance check.
Link_set_child_assign_first(self, child) ==
    IF "tid" \notin DOMAIN child
    THEN Raised(self, "AttributeError")
    ELSE IF ~isinstance(child, ChildType(self.cls))
    THEN Raised([self EXCEPT !.child = child.tid], "TypeError")
    ELSE Done([self EXCEPT !.child = child.tid])

Link_set_child(self, child) ==
    IF ~isinstance(child, ChildType(self.cls))
    THEN Raised(self, "TypeError")
    ELSE Done([self EXCEPT !.child = child.tid])

\* parent and child are Optional: <<>> is None, <<e>> is the entry e.
Link_init(pack, cls, parent, child) ==
    LET r == Entry_init(pack, cls)
        s0 == r.val @@ [parent |-> None, child |-> None]
        s1 == IF parent # <<>> THEN Link_set_parent(s0, parent[1]) ELSE Done(s0)
        s2 == IF child # <<>> THEN Link_set_child(s1.self, child[1]) ELSE Done(s1.self)
    IN  IF ~r.ok THEN r
        ELSE IF s1.err # NoErr THEN Err(s1.err)
        ELSE IF s2.err # NoErr THEN Err(s2.err)
        ELSE Ok(s2.self)

\* Mutants of get_parent: resolving the child's id, and answering from the
\* objects ever created instead of the store's index.
Link_get_parent_of_child(self) ==
    IF self.pack = None
    THEN Err("ValueError")
    ELSE get_entry(self.pack, self.child)

Link_get_parent_unindexed(self) ==
    IF \E h \in Handles : heap[h].tid = self.parent
    THEN Ok(CHOOSE h \in Handles : heap[h].tid = self.parent)
    ELSE Err("UnknownIdError")

Link_get_parent(self) ==
    IF self.pack = None
    THEN Err("ValueError")
    ELSE get_entry(self.pack, self.parent)

Link_get_child(self) ==
    IF self.pack = None
    THEN Err("ValueError")
    ELSE get_entry(self.pack, self.child)

----------------------------------------------------------------------------
(* Equality and hashing of entries.  A hash is represented by the tuple    *)
(* the code hashes; both may raise, so both yield Ok(..) or Err(..).       *)

IsA(h, cls) == cls \in Mro(heap[h].cls)

RECURSIVE Obj_hash(_)
Obj_hash(h) ==
    LET self == heap[h]
    IN  CASE IsA(h, "Annotation") ->
               Ok(<<self.cls, self.pack, self.span.begin, self.span.end>>)
          [] IsA(h, "Link") ->
               LET p == Link_get_parent(self)
                   c == Link_get_child(self)
               IN  IF ~p.ok THEN p
                   ELSE IF ~c.ok THEN c
                   ELSE IF ~Obj_hash(p.val).ok THEN Obj_hash(p.val)
                   ELSE IF ~Obj_hash(c.val).ok THEN Obj_hash(c.val)
                   ELSE Ok(<<self.cls, Obj_hash(p.val).val, Obj_hash(c.val).val>>)
          [] IsA(h, "BaseGroup") -> Ok(<<self.cls, self.members>>)
          [] OTHER -> Ok(<<self.cls, self.tid>>)

\* Mutant of BaseGroup.__eq__: Entry.__eq__, which goes by the tid.
BaseGroup_eq_by_tid(self, other) ==
    <<self.cls, self.tid>> = <<other.cls, other.tid>>

BaseGroup_eq(self, other) ==
    <<self.cls, self.members>> = <<other.cls, other.members>>

\* a == b for two objects; inside a tuple comparison Python takes identical
\* objects as equal without calling __eq__ (Item_eq).
RECURSIVE Obj_eq(_, _)
Item_eq(a, b) == IF a = b THEN Ok(TRUE) ELSE Obj_eq(a, b)

Obj_eq(a, b) ==
    LET self == heap[a]
        other == heap[b]
    IN  CASE IsA(a, "Annotation") ->
               IF IsA(b, "Annotation") THEN Ok(Annotation_eq(self, other))
               ELSE Err("AttributeError")
          [] IsA(a, "Link") ->
               LET sp_ == Link_get_parent(self)
                   sc == Link_get_child(self)
                   op == IF IsA(b, "Link") THEN Link_get_parent(other)
                         ELSE Err("AttributeError")
                   oc == IF IsA(b, "Link") THEN Link_get_child(other)
                         ELSE Err("AttributeError")
               IN  IF ~sp_.ok THEN sp_
                   ELSE IF ~sc.ok THEN sc
                   ELSE IF ~op.ok THEN op
                   ELSE IF ~oc.ok THEN oc
                   ELSE IF self.cls # other.cls THEN Ok(FALSE)
                   ELSE IF ~Item_eq(sp_.val, op.val).ok THEN Item_eq(sp_.val, op.val)
                   ELSE IF ~Item_eq(sp_.val, op.val).val THEN Ok(FALSE)
                   ELSE Item_eq(sc.val, oc.val)
          [] IsA(a, "BaseGroup") ->
               IF IsA(b, "BaseGroup")
               THEN Ok(BaseGroup_eq(self, other))
               ELSE Err("AttributeError")
          [] OTHER -> Ok(<<self.cls, self.tid>> = <<other.cls, other.tid>>)

----------------------------------------------------------------------------
(* BaseGroup / Group *)

\* Mutant of add_members: the member set is assigned, not added to.
RECURSIVE BaseGroup_add_members_overwrite(_, _)
BaseGroup_add_members_overwrite(self, members) ==
    IF members = <<>> THEN Done(self)
    ELSE LET member == Head(members)
         IN  IF ~isinstance(member, member_type(self.cls))
             THEN Raised(self, "TypeError")
             ELSE BaseGroup_add_members_overwrite(
                      [self EXCEPT !.members = {member.tid}], Tail(members))

\* Mutant of add_members: nothing is added when a member fails the check.
BaseGroup_add_members_all_or_nothing(self, members) ==
    IF \E i \in DOMAIN members : ~isinstance(members[i], member_type(self.cls))
    THEN Raised(self, "TypeError")
    ELSE Done([self EXCEPT !.members =
                   @ \cup {members[i].tid : i \in DOMAIN members}])

\* Mutant of add_members: no isinstance check.
RECURSIVE BaseGroup_add_members_unchecked(_, _)
BaseGroup_add_members_unchecked(self, members) ==
    IF members = <<>> THEN Done(self)
    ELSE LET member == Head(members)
         IN  IF "tid" \notin DOMAIN member
             THEN Raised(self, "AttributeError")
             ELSE BaseGroup_add_members_unchecked(
                      [self EXCEPT !.members = @ \cup {member.tid}],
                      Tail(members))

RECURSIVE BaseGroup_add_members(_, _)
BaseGroup_add_members(self, members) ==
    IF members = <<>> THEN Done(self)
    ELSE LET member == Head(members)
         IN  IF ~isinstance(member, member_type(self.cls))
             THEN Raised(self, "TypeError")
             ELSE IF member.tid = Unset
             THEN Raised(self, "AttributeError")
             ELSE BaseGroup_add_members(
                      [self EXCEPT !.members = @ \cup {member.tid}],
                      Tail(members))

BaseGroup_add_member(self, member) == BaseGroup_add_members(self, <<member>>)

\* members is Optional: <<>> is None, <<ms>> is the iterable ms.
BaseGroup_init(pack, cls, members) ==
    LET r == Entry_init(pack, cls)
        s0 == r.val @@ [members |-> {}]
        s1 == IF members # <<>> THEN BaseGroup_add_members(s0, members[1])
              ELSE Done(s0)
    IN  IF ~r.ok THEN r
        ELSE IF s1.err # NoErr THEN Err(s1.err)
        ELSE Ok(s1.self)

num_members(self) == Cardinality(self.members)

\* set.add(entry): hashes the entry, and keeps the set as it is when an
\* equal entry with the same hash is in it.
Set_add(acc, h) ==
    LET k == Obj_hash(h)
        same == {x \in acc : Obj_hash(x).val = k.val}
    IN  IF ~k.ok THEN Err(k.err)
        ELSE IF \E x \in same : ~Item_eq(x, h).ok
        THEN Item_eq(CHOOSE x \in same : ~Item_eq(x, h).ok, h)
        ELSE IF \E x \in same : Item_eq(x, h).val THEN Ok(acc)
        ELSE Ok(acc \cup {h})

\* The loop of get_members over the member ids taken in the order `order`.
RECURSIVE get_members_loop(_, _, _)
get_members_loop(self, order, acc) ==
    IF order = <<>> THEN Ok(acc)
    ELSE LET e == get_entry(self.pack, Head(order))
         IN  IF ~e.ok THEN e
             ELSE IF ~Set_add(acc, e.val).ok THEN Set_add(acc, e.val)
             ELSE get_members_loop(self, Tail(order), Set_add(acc, e.val).val)

Orders(S) ==
    {o \in [1..Cardinality(S) -> S] : \A i, j \in DOMAIN o : i # j => o[i] # o[j]}

\* Mutant of get_members: ids that do not resolve are skipped.
BaseGroup_get_members_skipping(self, order) ==
    IF self.pack = None THEN Err("ValueError")
    ELSE LET found(m) == get_entry(self.pack, m).ok
         IN  get_members_loop(self, SelectSeq(order, found), {})

\* get_members with the member set iterated in the order `order`.
BaseGroup_get_members(self, order) ==
    IF self.pack = None THEN Err("ValueError")
    ELSE get_members_loop(self, order, {})

----------------------------------------------------------------------------
(* SubEntry and MultiPackLink *)

SubEntry_init(pack, pack_index, entry_id) ==
    LET r == Entry_init(pack, "SubEntry")
    IN  IF r.ok
        THEN Ok(r.val @@ [pack_index |-> pack_index, entry_id |-> entry_id])
        ELSE r

\* Mutant of index_key: the pack index is not carried.
SubEntry_index_key_first_pack(self) == <<0, self.entry_id>>

SubEntry_index_key(self) == <<self.pack_index, self.entry_id>>

SubEntry_hash(self) == Ok(<<self.cls, self.pack_index, self.entry_id>>)

\* __eq__ reads other.entry, an attribute no SubEntry has.
SubEntry_eq(self, other) ==
    IF {"pack_index", "entry"} \subseteq DOMAIN other
    THEN Ok(<<self.cls, self.pack_index, self.entry_id>>
                = <<other.cls, other.pack_index, other.entry>>)
    ELSE Err("AttributeError")

MultiPackLink_set_parent(self, parent) ==
    IF ~isinstance(parent, ParentType(self.cls))
    THEN Raised(self, "TypeError")
    ELSE Done([self EXCEPT !.parent = SubEntry_index_key(parent)])

MultiPackLink_set_child(self, child) ==
    IF ~isinstance(child, ChildType(self.cls))
    THEN Raised(self, "TypeError")
    ELSE Done([self EXCEPT !.child = SubEntry_index_key(child)])

\* Mutant of __init__: the endpoints stay None after the reset.
MultiPackLink_init_cleared(pack, cls, parent, child) ==
    LET r == Entry_init(pack, cls)
        s0 == r.val @@ [parent |-> NoKey, child |-> NoKey]
        s1 == IF parent # <<>> THEN MultiPackLink_set_parent(s0, parent[1])
              ELSE Done(s0)
        s2 == IF child # <<>> THEN MultiPackLink_set_child(s1.self, child[1])
              ELSE Done(s1.self)
    IN  IF ~r.ok THEN r
        ELSE IF s1.err # NoErr THEN Err(s1.err)
        ELSE IF s2.err # NoErr THEN Err(s2.err)
        ELSE Ok([s2.self EXCEPT !.parent = NoKey, !.child = NoKey])

\* BaseLink.__init__ sets the endpoints given, the constructor then resets
\* both to None and sets them again.
MultiPackLink_init(pack, cls, parent, child) ==
    LET r == Entry_init(pack, cls)
        s0 == r.val @@ [parent |-> NoKey, child |-> NoKey]
        s1 == IF parent # <<>> THEN MultiPackLink_set_parent(s0, parent[1])
              ELSE Done(s0)
        s2 == IF child # <<>> THEN MultiPackLink_set_child(s1.self, child[1])
              ELSE Done(s1.self)
        s3 == [s2.self EXCEPT !.parent = NoKey, !.child = NoKey]
        s4 == IF parent # <<>> THEN MultiPackLink_set_parent(s3, parent[1])
              ELSE Done(s3)
        s5 == IF child # <<>> THEN MultiPackLink_set_child(s4.self, child[1])
              ELSE Done(s4.self)
    IN  IF ~r.ok THEN r
        ELSE IF s1.err # NoErr THEN Err(s1.err)
        ELSE IF s2.err # NoErr THEN Err(s2.err)
        ELSE IF s4.err # NoErr THEN Err(s4.err)
        ELSE IF s5.err # NoErr THEN Err(s5.err)
        ELSE Ok(s5.self)

\* The properties parent and child.
MultiPackLink_parent(self) ==
    IF self.parent = NoKey
    THEN Err("IncompleteEntryError")
    ELSE Ok(self.parent)

MultiPackLink_child(self) ==
    IF self.child = NoKey
    THEN Err("IncompleteEntryError")
    ELSE Ok(self.child)

\* Mutant of get_parent: the stored pair is unpacked without the test for
\* None.
MultiPackLink_get_parent_unguarded(self) ==
    IF self.parent = NoKey
    THEN Err("TypeError")
    ELSE SubEntry_init(self.pack, self.parent[1], self.parent[2])

MultiPackLink_get_parent(self) ==
    IF self.parent = NoKey
    THEN Err("IncompleteEntryError")
    ELSE SubEntry_init(self.pack, self.parent[1], self.parent[2])

MultiPackLink_get_child(self) ==
    IF self.child = NoKey
    THEN Err("IncompleteEntryError")
    ELSE SubEntry_init(self.pack, self.child[1], self.child[2])

----------------------------------------------------------------------------
(* The store's indices besides the id index: the annotations of a store,   *)
(* each entered under the span it had when it was added and kept in        *)
(* Annotation order of these keys, and the optional index of links by      *)
(* type.  The queries read the indices.                                    *)

Key(e, h) == [span |-> e.span, cls |-> e.cls, h |-> h]

\* The place of a new key: behind the keys that are not greater.
insort(seq, k) ==
    LET greater == {i \in 1..Len(seq) : Annotation_lt(k, seq[i])}
        at == IF greater = {} THEN Len(seq) + 1
              ELSE CHOOSE i \in greater : \A j \in greater : i <= j
    IN  SubSeq(seq, 1, at - 1) \o <<k>> \o SubSeq(seq, at, Len(seq))

\* query_entries(store, type) for an Annotation type, and with a span: the
\* entries of the type entered under a key inside [begin, end].
query_annotations(pack, cls) ==
    LET ofType(k) == cls \in Mro(k.cls)
        ks == SelectSeq(annotations[pack], ofType)
    IN  [i \in 1..Len(ks) |-> ks[i].h]

query_span(pack, cls, begin, end) ==
    LET inside(k) == /\ cls \in Mro(k.cls)
                     /\ begin <= k.span.begin /\ k.span.end <= end
        ks == SelectSeq(annotations[pack], inside)
    IN  [i \in 1..Len(ks) |-> ks[i].h]

\* query_entries(store, type) for any other type: the entries of the type in
\* the order they were entered into the id index.
RECURSIVE Ascending(_)
Ascending(S) ==
    IF S = {} THEN <<>>
    ELSE LET m == CHOOSE x \in S : \A y \in S : x <= y
         IN  <<m>> \o Ascending(S \ {m})

full_scan(pack, cls) ==
    {h \in Handles : /\ heap[h].pack = pack
                     /\ Registered(h)
                     /\ isinstance(heap[h], cls)}

indexed_links(pack, cls) ==
    UNION {link_index[pack].links[c] : c \in {x \in LinkClasses : cls \in Mro(x)}}

query_links(pack, cls) ==
    IF link_index[pack].on THEN indexed_links(pack, cls) ELSE full_scan(pack, cls)

query_entries(pack, cls) ==
    IF "Annotation" \in Mro(cls)
    THEN query_annotations(pack, cls)
    ELSE IF "Link" \in Mro(cls) THEN Ascending(query_links(pack, cls))
    ELSE Ascending(full_scan(pack, cls))

----------------------------------------------------------------------------
(* The Pipeline (nlp/pipeline/pipeline.py).  A pack is named by its place   *)
(* in the reader's output, a processor by its place in the pipeline,        *)
(* counted from 1.  The processors' process methods are not part of the     *)
(* sources at hand.  A processor of kind "pack" finishes the pack it is     *)
(* given before process returns; one of kind "batch" marks the pack as      *)
(* cached (meta.cache_state) and keeps it in its pool until a batch is      *)
(* full or process is called with tail_instances, and then finishes every   *)
(* pack of the pool.                                                        *)

Kinds == {"pack", "batch"}

\* get_full_module_name(self): the processors of a pipeline are of
\* different classes.
component_name(k) == "Processor" \o ToString(k)

Pipeline_init ==
    [processors |-> <<>>,
     processors_index |-> ("" :> -1),
     current_packs |-> <<>>,
     packs |-> <<>>,       \* the meta of every pack read so far
     dataset |-> 0,        \* packs the reader has still to produce
     pc |-> "new", i |-> 0, j |-> 0, scan |-> <<>>,
     yielded |-> <<>>,     \* the packs yielded, in order
     applied |-> <<>>,     \* per pack: the processors that took it in, in order
     err |-> NoErr]

Pipeline_add_processor(self, kind) ==
    LET name == component_name(Len(self.processors) + 1)
    IN  [self EXCEPT
            !.processors_index = (name :> Len(self.processors)) @@ @,
            !.processors = Append(@, [component_name |-> name, kind |-> kind,
                                      pool |-> {}])]

\* BaseProcessor.finish, for one pack and for the packs of a pool.
finish(self, k, S) ==
    [self EXCEPT !.packs = [c \in DOMAIN @ |->
        IF c \in S
        THEN [@[c] EXCEPT !.process_state = self.processors[k].component_name]
        ELSE @[c]]]

\* processors[k].process(c_pack): `flush` says whether a batch processor
\* finishes its pool in this call.
process(self, k, c, flush) ==
    LET proc == self.processors[k]
        taken == [self EXCEPT !.applied[c] = Append(@, k)]
        cached == IF self.packs[c].cache_state = proc.component_name
                  THEN self
                  ELSE [taken EXCEPT
                           !.packs[c].cache_state = proc.component_name,
                           !.processors[k].pool = @ \cup {c}]
    IN  IF proc.kind = "pack" THEN finish(taken, k, {c})
        ELSE IF flush
        THEN [finish(cached, k, cached.processors[k].pool)
                  EXCEPT !.processors[k].pool = {}]
        ELSE cached

\* list.remove
Remove(seq, c) == SelectSeq(seq, LAMBDA x : x # c)

\* process_dataset up to its first loop: the reader's iterator is made.
Pipeline_process_dataset(self, n) ==
    [self EXCEPT !.dataset = n, !.pc = "read"]

\* for pack in data_iter: the next pack joins current_packs, or the loop
\* ends and the tail loop starts over a copy of current_packs.
Pipeline_next_pack(self) ==
    IF self.dataset = 0
    THEN [self EXCEPT !.pc = "tail", !.scan = self.current_packs]
    ELSE LET c == Len(self.packs) + 1
             in_ == [self EXCEPT
                        !.dataset = @ - 1,
                        !.packs = Append(@, [process_state |-> "",
                                             cache_state |-> None]),
                        !.applied = Append(@, <<>>),
                        !.current_packs = Append(@, c)]
         IN  IF self.processors = <<>>
             THEN [in_ EXCEPT !.pc = "yield", !.scan = in_.current_packs]
             ELSE [in_ EXCEPT !.pc = "process", !.i = 1, !.j = 1]

\* One pass of the body of `for c_pack in self.current_packs` for the
\* processor i, and the move to the next pack, the next processor, or the
\* loop that yields.
Pipeline_process_step(self, flush) ==
    LET c_pack == self.current_packs[self.j]
        processor == self.processors[self.i]
        in_cache == self.packs[c_pack].cache_state = processor.component_name
        can_process ==
            \/ self.i = 1
            \/ self.packs[c_pack].process_state
                   = self.processors[self.i - 1].component_name
        after == IF can_process /\ ~in_cache
                 THEN process(self, self.i, c_pack, flush)
                 ELSE self
    IN  IF self.j < Len(self.current_packs)
        THEN [after EXCEPT !.j = @ + 1]
        ELSE IF self.i < Len(self.processors)
        THEN [after EXCEPT !.i = @ + 1, !.j = 1]
        ELSE [after EXCEPT !.pc = "yield", !.scan = after.current_packs]

\* One pass of `for c_pack in list(self.current_packs)` after the
\* processors: the pack is yielded and removed when the last processor has
\* finished it.
Pipeline_yield_step(self) ==
    IF self.scan = <<>> THEN [self EXCEPT !.pc = "read"]
    ELSE IF self.processors = <<>>
    THEN [self EXCEPT !.pc = "raised", !.err = "IndexError"]
    ELSE LET c_pack == Head(self.scan)
             last_ == self.processors[Len(self.processors)]
         IN  IF self.packs[c_pack].process_state = last_.component_name
             THEN [self EXCEPT !.yielded = Append(@, c_pack),
                               !.current_packs = Remove(@, c_pack),
                               !.scan = Tail(@)]
             ELSE [self EXCEPT !.scan = Tail(@)]

\* processors[start:] applied to the pack, each with tail_instances.
RECURSIVE tail_run(_, _, _)
tail_run(self, k, c_pack) ==
    IF k > Len(self.processors) THEN self
    ELSE tail_run(process(self, k, c_pack, TRUE), k + 1, c_pack)

\* One pass of the tail loop: the processors behind the one that finished
\* the pack last take it, and it is yielded and removed.
Pipeline_tail_step(self) ==
    IF self.scan = <<>> THEN [self EXCEPT !.pc = "done"]
    ELSE LET c_pack == Head(self.scan)
             start == self.processors_index[self.packs[c_pack].process_state] + 1
             run == tail_run(self, start + 1, c_pack)
         IN  [run EXCEPT !.yielded = Append(@, c_pack),
                         !.current_packs = Remove(@, c_pack),
                         !.scan = Tail(@)]

----------------------------------------------------------------------------
(* The state machine.  Objects are named by their position in heap; 0      *)
(* names a Python object that is no Entry (a str).                         *)

PyStr == [cls |-> "str"]

Arg(h) == IF h = 0 THEN PyStr ELSE heap[h]
Args(hs) == [i \in DOMAIN hs |-> Arg(hs[i])]
Optional(S) == {<<>>} \cup {<<x>> : x \in S}
OptArg(o) == IF o = <<>> THEN <<>> ELSE <<Arg(o[1])>>
Batches == UNION {[1..n -> 0..Len(heap)] : n \in 0..MaxBatch}
Positions == 0..MaxPos
AnnPositions == {0, 1}

Call(op, err) == [op |-> op, err |-> err]

Init ==
    /\ heap = <<>>
    /\ entry_index = [p \in Packs |-> [t \in {} |-> 0]]
    /\ id_counter = [p \in Packs |-> [c \in AnnotationClasses \cup LinkClasses
                        \cup GroupClasses \cup MultiPackLinkClasses |-> 0]]
    /\ last = Call("init", NoErr)
    /\ added = <<>>
    /\ sp = <<>>
    /\ annotations = [p \in Packs |-> <<>>]
    /\ link_index = [p \in Packs |-> [on |-> FALSE, links |-> [c \in LinkClasses |-> {}]]]
    /\ pipe = Pipeline_init

Fail(op, err) ==
    /\ last' = Call(op, err)
    /\ UNCHANGED <<heap, entry_index, id_counter, added, sp, annotations, link_index, pipe>>

\* The ids of the entries the add_members loop takes before it raises or
\* ends: those in front of the first entry that fails the check.
AcceptedIds(cls, members) ==
    LET bad == {i \in DOMAIN members :
                   \/ ~isinstance(members[i], member_type(cls))
                   \/ members[i].tid = Unset}
        taken == {i \in DOMAIN members : \A j \in bad : i < j}
    IN  {members[i].tid : i \in taken}

\* Mutant of add_entry: the link index is left as it is.
add_entry_unindexed(pack, entry, ids) ==
    LET h == Len(heap) + 1
        e == Entry_set_tid(entry, next_id(pack, entry.cls))
    IN  /\ heap' = Append(heap, e)
        /\ entry_index' = [entry_index EXCEPT ![pack] = (e.tid :> h) @@ @]
        /\ id_counter' = [id_counter EXCEPT ![pack][entry.cls] = @ + 1]
        /\ last' = Call("create", NoErr)
        /\ added' = Append(added, ids)
        /\ annotations' =
               IF isinstance(e, "Annotation")
               THEN [annotations EXCEPT ![pack] = insort(@, Key(e, h))]
               ELSE annotations
        /\ UNCHANGED <<sp, link_index, pipe>>

\* add_entry: the store assigns the next serial number of the entry's class,
\* registers the entry under its tid and enters it into its other indices.
add_entry(pack, entry, ids) ==
    LET h == Len(heap) + 1
        e == Entry_set_tid(entry, next_id(pack, entry.cls))
    IN  /\ heap' = Append(heap, e)
        /\ entry_index' = [entry_index EXCEPT ![pack] = (e.tid :> h) @@ @]
        /\ id_counter' = [id_counter EXCEPT ![pack][entry.cls] = @ + 1]
        /\ last' = Call("create", NoErr)
        /\ added' = Append(added, ids)
        /\ annotations' =
               IF isinstance(e, "Annotation")
               THEN [annotations EXCEPT ![pack] = insort(@, Key(e, h))]
               ELSE annotations
        /\ link_index' =
               IF link_index[pack].on /\ isinstance(e, "Link")
               THEN [link_index EXCEPT ![pack].links[e.cls] = @ \cup {h}]
               ELSE link_index
        /\ UNCHANGED <<sp, pipe>>

create_annotation(pack, cls, begin, end) ==
    LET r == Annotation_init(pack, cls, begin, end)
    IN  IF r.ok THEN add_entry(pack, r.val, {}) ELSE Fail("create", r.err)

create_link(pack, cls, parent, child) ==
    LET r == Link_init(pack, cls, OptArg(parent), OptArg(child))
    IN  IF r.ok THEN add_entry(pack, r.val, {}) ELSE Fail("create", r.err)

create_group(pack, cls, members) ==
    LET ms == IF members = <<>> THEN <<>> ELSE <<Args(members[1])>>
        r == BaseGroup_init(pack, cls, ms)
    IN  IF r.ok
        THEN add_entry(pack, r.val,
                       IF ms = <<>> THEN {} ELSE AcceptedIds(cls, ms[1]))
        ELSE Fail("create", r.err)

\* A mutator call on the object h.
Mutate(op, h, r) ==
    /\ heap' = [heap EXCEPT ![h] = r.self]
    /\ last' = Call(op, r.err)
    /\ UNCHANGED <<entry_index, id_counter, added, sp, annotations, link_index, pipe>>

set_span(h, begin, end) ==
    /\ IsA(h, "Annotation")
    /\ Mutate("set_span", h, Done(Annotation_set_span(heap[h], begin, end)))

set_parent(h, a) ==
    /\ IsA(h, "Link")
    /\ Mutate("set_parent", h, Link_set_parent(heap[h], Arg(a)))

set_child(h, a) ==
    /\ IsA(h, "Link")
    /\ Mutate("set_child", h, Link_set_child(heap[h], Arg(a)))

\* A call that adds to the group h; `dup` notes that an id it took was a
\* member already.
Add(op, h, members, r) ==
    LET ids == AcceptedIds(heap[h].cls, members)
    IN  /\ heap' = [heap EXCEPT ![h] = r.self]
        /\ added' = [added EXCEPT ![h] = @ \cup ids]
        /\ last' = Call(op, r.err) @@ [dup |-> ids \cap added[h] # {}]
        /\ UNCHANGED <<entry_index, id_counter, sp, annotations, link_index, pipe>>

\* add_member hands the one-element list to add_members, and that is the
\* call recorded.
add_member(h, a) ==
    /\ IsA(h, "BaseGroup")
    /\ Add("add_members", h, <<Arg(a)>>, BaseGroup_add_member(heap[h], Arg(a)))

add_members(h, as) ==
    /\ IsA(h, "BaseGroup")
    /\ Add("add_members", h, Args(as), BaseGroup_add_members(heap[h], Args(as)))

\* Mutant of remove_entry: only the id index drops the id.
remove_entry_id_only(h) ==
    /\ Registered(h)
    /\ entry_index' = [entry_index EXCEPT ![heap[h].pack] =
           [t \in DOMAIN @ \ {heap[h].tid} |-> @[t]]]
    /\ last' = Call("remove", NoErr)
    /\ UNCHANGED <<heap, id_counter, added, sp, annotations, link_index, pipe>>

\* add_members with an iterable of any length; `taken` is the number of ids
\* the loop took before it ended or raised.
add_members_from(h, as) ==
    LET r == BaseGroup_add_members(heap[h], Args(as))
        ids == AcceptedIds(heap[h].cls, Args(as))
    IN  /\ IsA(h, "BaseGroup")
        /\ heap' = [heap EXCEPT ![h] = r.self]
        /\ added' = [added EXCEPT ![h] = @ \cup ids]
        /\ last' = Call("add_members", r.err) @@ [taken |-> Cardinality(ids)]
        /\ UNCHANGED <<entry_index, id_counter, sp, annotations, link_index, pipe>>

\* Removal drops the entry's id from every index of the store; the object
\* stays with whoever still refers to it.
remove_entry(h) ==
    /\ Registered(h)
    /\ entry_index' = [entry_index EXCEPT ![heap[h].pack] =
           [t \in DOMAIN @ \ {heap[h].tid} |-> @[t]]]
    /\ annotations' = [annotations EXCEPT ![heap[h].pack] =
           SelectSeq(@, LAMBDA k : k.h # h)]
    /\ link_index' = [link_index EXCEPT ![heap[h].pack].links =
           [c \in DOMAIN @ |-> @[c] \ {h}]]
    /\ last' = Call("remove", NoErr)
    /\ UNCHANGED <<heap, id_counter, added, sp, pipe>>

\* Switching the link index on builds it from the id index; switching it
\* off drops it.
turn_link_index(pack, on) ==
    /\ link_index' = [link_index EXCEPT ![pack] =
           [on |-> on,
            links |-> [c \in LinkClasses |->
                          IF on THEN {h \in full_scan(pack, c) : heap[h].cls = c}
                          ELSE {}]]]
    /\ last' = Call("turn_link_index", NoErr)
    /\ UNCHANGED <<heap, entry_index, id_counter, added, sp, annotations, pipe>>

\* An argument of a MultiPackLink call: <<"obj", a>> is the object Arg(a),
\* <<"sub", i, id>> the SubEntry of the container MP for the address (i, id).
MArg(x) ==
    IF x[1] = "obj" THEN Arg(x[2]) ELSE SubEntry_init("MP", x[2], x[3]).val

OptMArg(o) == IF o = <<>> THEN <<>> ELSE <<MArg(o[1])>>

create_multi_link(pack, cls, parent, child) ==
    LET r == MultiPackLink_init(pack, cls, OptMArg(parent), OptMArg(child))
    IN  IF r.ok THEN add_entry(pack, r.val, {}) ELSE Fail("create", r.err)

multi_set_parent(h, x) ==
    /\ IsA(h, "MultiPackLink")
    /\ Mutate("set_parent", h, MultiPackLink_set_parent(heap[h], MArg(x)))

multi_set_child(h, x) ==
    /\ IsA(h, "MultiPackLink")
    /\ Mutate("set_child", h, MultiPackLink_set_child(heap[h], MArg(x)))

\* from_address(container, pack_index, entry_id): the SubEntry constructor.
from_address(container, pack_index, entry_id) ==
    LET r == SubEntry_init(container, pack_index, entry_id)
    IN  /\ last' = Call("from_address", r.err) @@
                   [pack_index |-> pack_index, entry_id |-> entry_id,
                    val |-> r.val]
        /\ UNCHANGED <<heap, entry_index, id_counter, added, sp, annotations, link_index, pipe>>

\* One single-document store with annotations and the links between them.
Next ==
    \/ /\ Len(heap) < MaxEntries
       /\ \E c \in AnnotationClasses : create_annotation("S0", c, 0, 0)
    \/ /\ Len(heap) < MaxEntries
       /\ \E c \in LinkClasses, p, ch \in Optional(0..Len(heap)) :
              create_link("S0", c, p, ch)
    \/ \E h \in Handles : set_span(h, 0, 0)
    \/ \E h \in Handles, a \in 0..Len(heap) : set_parent(h, a)
    \/ \E h \in Handles, a \in 0..Len(heap) : set_child(h, a)
    \/ \E h \in Handles : remove_entry(h)

Spec == Init /\ [][Next]_vars

\* One single-document store with annotations and the groups over them.
GroupNext ==
    \/ /\ Len(heap) < MaxGroupEntries
       /\ \E c \in AnnotationClasses : create_annotation("S0", c, 0, 0)
    \/ /\ Len(heap) < MaxGroupEntries
       /\ \E c \in GroupClasses, ms \in Optional(Batches) :
              create_group("S0", c, ms)
    \/ \E h \in Handles, a \in 0..Len(heap) : add_member(h, a)
    \/ \E h \in Handles, as \in Batches : add_members(h, as)
    \/ \E h \in Handles : remove_entry(h)

GroupSpec == Init /\ [][GroupNext]_vars

\* A container over the sub-stores S0 and S1, addressed with SubEntry.
PackIndices == -1..Len(SubStores)
EntryIds == {heap[h].tid : h \in Handles} \cup {"42"}

MultiNext ==
    \/ /\ Len(heap) < MaxMultiEntries
       /\ \E i \in DOMAIN SubStores, c \in AnnotationClasses, e \in Positions :
              create_annotation(SubStores[i], c, 0, e)
    \/ \E h \in Handles : remove_entry(h)
    \/ \E i \in PackIndices, id \in EntryIds : from_address("MP", i, id)

MultiSpec == Init /\ [][MultiNext]_vars

\* One single-document store with annotations and groups that take their
\* members from iterables of several objects.
BatchCalls == UNION {[1..n -> 0..Len(heap)] : n \in 0..MaxBatchLen}

BatchNext ==
    \/ /\ Len(heap) < MaxBatchEntries
       /\ create_annotation("S0", "PredicateMention", 0, 0)
    \/ /\ Len(heap) < MaxBatchEntries
       /\ \E c \in GroupClasses : create_group("S0", c, <<>>)
    \/ \E h \in Handles, as \in BatchCalls : add_members_from(h, as)

BatchSpec == Init /\ [][BatchNext]_vars

\* The container with links between the entries of its sub-stores, and a
\* sub-store with links between its own annotations.
MArgs ==
    {<<"obj", a>> : a \in 0..Len(heap)}
        \cup UNION {{<<"sub", i - 1, id>> : id \in DOMAIN entry_index[SubStores[i]]} :
                        i \in DOMAIN SubStores}

MultiLinkNext ==
    \/ /\ Len(heap) < MaxMultiLinkEntries
       /\ \E i \in DOMAIN SubStores, c \in AnnotationClasses :
              create_annotation(SubStores[i], c, 0, 0)
    \/ /\ Len(heap) < MaxMultiLinkEntries
       /\ \E c \in LinkClasses : create_link("S0", c, <<>>, <<>>)
    \/ /\ Len(heap) < MaxMultiLinkEntries
       /\ \E c \in MultiPackLinkClasses, p, ch \in Optional(MArgs) :
              create_multi_link("MP", c, p, ch)
    \/ \E h \in Handles, a \in 0..Len(heap) : set_parent(h, a)
    \/ \E h \in Handles, a \in 0..Len(heap) : set_child(h, a)
    \/ \E h \in Handles, x \in MArgs : multi_set_parent(h, x)
    \/ \E h \in Handles, x \in MArgs : multi_set_child(h, x)

MultiLinkSpec == Init /\ [][MultiLinkNext]_vars

\* One single-document store with annotations, links and groups, and the
\* switch of its link index.
IndexNext ==
    \/ /\ Len(heap) < MaxIndexEntries
       /\ \E c \in AnnotationClasses : create_annotation("S0", c, 0, 0)
    \/ /\ Len(heap) < MaxIndexEntries
       /\ \E c \in LinkClasses, p \in Optional(0..Len(heap)) :
              create_link("S0", c, p, <<>>)
    \/ /\ Len(heap) < MaxIndexEntries
       /\ \E c \in GroupClasses : create_group("S0", c, <<>>)
    \/ \E h \in Handles, a \in Handles : set_parent(h, a)
    \/ \E h \in Handles, a \in Handles : set_child(h, a)
    \/ \E h \in Handles, a \in Handles : add_member(h, a)
    \/ \E h \in Handles : remove_entry(h)
    \/ \E on \in BOOLEAN : turn_link_index("S0", on)

IndexSpec == Init /\ [][IndexNext]_vars

\* Two single-document stores with annotations and links; a link takes an
\* annotation of either store as an endpoint.
OwnerNext ==
    \/ /\ Len(heap) < MaxOwnerEntries
       /\ \E i \in DOMAIN SubStores, c \in AnnotationClasses :
              create_annotation(SubStores[i], c, 0, 0)
    \/ /\ Len(heap) < MaxOwnerEntries
       /\ \E i \in DOMAIN SubStores, c \in LinkClasses,
             p, ch \in Optional(0..Len(heap)) :
              create_link(SubStores[i], c, p, ch)
    \/ \E h \in Handles : set_span(h, 0, 0)
    \/ \E h \in Handles, a \in 0..Len(heap) : set_parent(h, a)
    \/ \E h \in Handles, a \in 0..Len(heap) : set_child(h, a)
    \/ \E h \in Handles : remove_entry(h)

OwnerSpec == Init /\ [][OwnerNext]_vars

\* Two single-document stores with annotations whose begin and end are any
\* two offsets, in either order.

AnnNext ==
    \/ /\ Len(heap) < MaxAnnEntries
       /\ \E i \in DOMAIN SubStores, c \in AnnotationClasses,
             b, e \in AnnPositions :
              create_annotation(SubStores[i], c, b, e)
    \/ \E h \in Handles, b, e \in AnnPositions : set_span(h, b, e)

AnnSpec == Init /\ [][AnnNext]_vars

\* The pipeline: processors are added, then process_dataset runs over the
\* packs of a reader, step by step.
Step(op, p) ==
    /\ pipe' = p
    /\ last' = Call(op, p.err)
    /\ UNCHANGED <<heap, entry_index, id_counter, added, sp, annotations, link_index>>

add_processor(kind) ==
    /\ pipe.pc = "new"
    /\ Step("add_processor", Pipeline_add_processor(pipe, kind))

process_dataset(n) ==
    /\ pipe.pc = "new"
    /\ Step("process_dataset", Pipeline_process_dataset(pipe, n))

next_pack ==
    /\ pipe.pc = "read"
    /\ Step("next_pack", Pipeline_next_pack(pipe))

process_step ==
    /\ pipe.pc = "process"
    /\ \E flush \in BOOLEAN : Step("process", Pipeline_process_step(pipe, flush))

yield_step ==
    /\ pipe.pc = "yield"
    /\ Step("yield", Pipeline_yield_step(pipe))

tail_step ==
    /\ pipe.pc = "tail"
    /\ Step("tail", Pipeline_tail_step(pipe))

PipeNext ==
    \/ /\ Len(pipe.processors) < MaxProcessors
       /\ \E kind \in Kinds : add_processor(kind)
    \/ \E n \in 0..MaxPacks : process_dataset(n)
    \/ next_pack
    \/ process_step
    \/ yield_step
    \/ tail_step

PipeSpec == Init /\ [][PipeNext]_vars

\* Three Spans, compared.
Spans == {Span(b, e) : b, e \in 0..MaxSpanPos}

SpanInit ==
    /\ Init!1 /\ Init!2 /\ Init!3 /\ Init!4 /\ Init!5 /\ Init!7 /\ Init!8 /\ Init!9
    /\ sp \in Spans \X Spans \X Spans

compare ==
    /\ last' = Call("compare", NoErr) @@
               [lt |-> Span_lt(sp[1], sp[2]), eq |-> Span_eq(sp[1], sp[2])]
    /\ UNCHANGED <<heap, entry_index, id_counter, added, sp, annotations, link_index, pipe>>

SpanNext == compare

SpanSpec == SpanInit /\ [][SpanNext]_vars

----------------------------------------------------------------------------
(* Properties.  The exceptions of the written specification are the ones   *)
(* the code raises in their place: TypeMismatchError is TypeError, and a   *)
(* reference dangles when the lookup of its id fails (UnknownIdError from  *)
(* the store) or the link has no owner (ValueError).                       *)

Links == {h \in Handles : IsA(h, "Link")}
Groups == {h \in Handles : IsA(h, "BaseGroup")}
Dangling(r) == ~r.ok /\ r.err \in {"UnknownIdError", "ValueError"}

\* C1: the ids assigned to the entries created on one store are pairwise
\* distinct, whatever the mix of entry types.
C1_IdsDistinct ==
    \A a, b \in Handles :
        a # b /\ heap[a].pack = heap[b].pack => heap[a].tid # heap[b].tid

\* Two entries of different classes that got the same serial number.
C1_Witness ==
    \E a, b \in Handles :
        /\ heap[a].pack = heap[b].pack
        /\ heap[a].cls # heap[b].cls
        /\ heap[a].tid = Entry_set_tid(heap[a], "0").tid
        /\ heap[b].tid = Entry_set_tid(heap[b], "0").tid

\* C2 (as claimed): for every entry e registered in its store S,
\* get_entry(S, e.tid) == e evaluates to True.
C2_RoundTrip ==
    \A h \in Handles :
        Registered(h) =>
            LET r == get_entry(heap[h].pack, heap[h].tid)
            IN  r.ok /\ Obj_eq(r.val, h) = Ok(TRUE)

\* C3: set_parent / set_child with an entry that is no instance of the
\* link's ParentType / ChildType raises TypeError and leaves the link as it
\* was, for Link and for MultiPackLink; a link never holds the id of an entry
\* of the wrong type.
C3_TypeGate ==
    /\ \A h \in Links, a \in 0..Len(heap) :
        /\ ~isinstance(Arg(a), ParentType(heap[h].cls)) =>
               Link_set_parent(heap[h], Arg(a)) = Raised(heap[h], "TypeError")
        /\ ~isinstance(Arg(a), ChildType(heap[h].cls)) =>
               Link_set_child(heap[h], Arg(a)) = Raised(heap[h], "TypeError")
    /\ \A h \in Links, p \in Handles :
        /\ heap[h].parent = heap[p].tid =>
               isinstance(heap[p], ParentType(heap[h].cls))
        /\ heap[h].child = heap[p].tid =>
               isinstance(heap[p], ChildType(heap[h].cls))
    /\ \A a \in 0..Len(heap) :
        LET m == MultiPackLink_init("MP", "MultiPackLink", <<>>, <<>>).val
        IN  /\ MultiPackLink_set_parent(m, Arg(a)) = Raised(m, "TypeError")
            /\ MultiPackLink_set_child(m, Arg(a)) = Raised(m, "TypeError")
            /\ ~MultiPackLink_init("MP", "MultiPackLink", <<Arg(a)>>, <<>>).ok
    /\ last.op \in {"set_parent", "set_child"} =>
           last.err \in {NoErr, "TypeError"}

\* A set_parent call with an entry of the wrong type has just failed, on a
\* link that holds a parent.
C3_Witness ==
    /\ last = Call("set_parent", "TypeError")
    /\ \E h \in Links, a \in Handles :
           /\ heap[h].parent # None
           /\ ~isinstance(heap[a], ParentType(heap[h].cls))

\* C4: after set_parent(p) on a link, with p present in the link's store,
\* get_parent() returns an entry equal to p, and it does so for as long as
\* the link holds p's id and p stays in the store; likewise for the child.
C4_GetAfterSet ==
    \A h \in Links, p \in Handles :
        Registered(p) /\ heap[p].pack = heap[h].pack =>
            /\ LET s == Link_set_parent(heap[h], heap[p])
                   g == Link_get_parent(s.self)
               IN  s.err = NoErr => g.ok /\ Obj_eq(g.val, p) = Ok(TRUE)
            /\ LET s == Link_set_child(heap[h], heap[p])
                   g == Link_get_child(s.self)
               IN  s.err = NoErr => g.ok /\ Obj_eq(g.val, p) = Ok(TRUE)
            /\ heap[h].parent = heap[p].tid =>
                   /\ Link_get_parent(heap[h]).ok
                   /\ Obj_eq(Link_get_parent(heap[h]).val, p) = Ok(TRUE)
            /\ heap[h].child = heap[p].tid =>
                   /\ Link_get_child(heap[h]).ok
                   /\ Obj_eq(Link_get_child(heap[h]).val, p) = Ok(TRUE)

\* A link whose parent and child are both set and in the store, other calls
\* having followed the set_parent.
C4_Witness ==
    /\ last.op = "set_span"
    /\ \E h \in Links, p, c \in Handles :
           /\ Registered(p) /\ heap[h].parent = heap[p].tid
           /\ Registered(c) /\ heap[h].child = heap[c].tid

\* C5: get_parent() / get_child() of a link whose stored id is not in the
\* store's index (its entry was removed, or it was never set) or that has no
\* owner fails as a dangling reference; what it returns, when it returns, is
\* the entry registered under the stored id, never a removed one.
C5_Dangling ==
    \A h \in Links :
        LET self == heap[h]
            gp == Link_get_parent(self)
            gc == Link_get_child(self)
        IN  /\ self.parent \notin DOMAIN entry_index[self.pack] => Dangling(gp)
            /\ self.child \notin DOMAIN entry_index[self.pack] => Dangling(gc)
            /\ Dangling(Link_get_parent([self EXCEPT !.pack = None]))
            /\ Dangling(Link_get_child([self EXCEPT !.pack = None]))
            /\ gp.ok => Registered(gp.val) /\ heap[gp.val].tid = self.parent
            /\ gc.ok => Registered(gc.val) /\ heap[gc.val].tid = self.child

\* The parent of a link has just been removed from the store.
C5_Witness ==
    /\ last.op = "remove"
    /\ \E h \in Links, p \in Handles :
           /\ heap[h].parent = heap[p].tid
           /\ ~Registered(p)
           /\ Registered(h)

\* The iterables of up to two objects a caller may hand to add_members.
CallBatches == UNION {[1..n -> 0..Len(heap)] : n \in 0..2}

\* C6: adding to a group is idempotent: after any sequence of add_member /
\* add_members calls the number of members is the number of distinct ids
\* added, and adding an entry a second time changes nothing.
C6_MembersAreASet ==
    \A g \in Groups :
        /\ num_members(heap[g]) = Cardinality(added[g])
        /\ \A as \in CallBatches :
               LET r == BaseGroup_add_members(heap[g], Args(as))
               IN  r.err = NoErr =>
                       num_members(r.self) = Cardinality(
                           heap[g].members \cup {heap[as[i]].tid : i \in DOMAIN as})
        /\ \A a \in Handles :
               LET once == BaseGroup_add_member(heap[g], heap[a])
                   twice == BaseGroup_add_member(once.self, heap[a])
               IN  /\ once.err = NoErr
                   /\ twice = once
                   /\ num_members(once.self) =
                          IF heap[a].tid \in heap[g].members
                          THEN num_members(heap[g])
                          ELSE num_members(heap[g]) + 1

\* An entry that was a member already has just been added again, to a group
\* that has this one member.
C6_Witness ==
    /\ last.op = "add_members" /\ last.err = NoErr /\ last.dup
    /\ \E g \in Groups : Groups = {g} /\ num_members(heap[g]) = 1

\* C7: get_members() fails as a whole as soon as one member id does not
\* resolve in the owning store, in whatever order the ids are taken; it
\* returns entries only when every id resolves.
C7_GetMembersFailFast ==
    \A g \in Groups : \A o \in Orders(heap[g].members) :
        LET self == heap[g]
            r == BaseGroup_get_members(self, o)
            resolves(m) == get_entry(self.pack, m).ok
        IN  /\ (\E m \in self.members : ~resolves(m)) => Dangling(r)
            /\ r.ok => /\ \A m \in self.members : resolves(m)
                       /\ r.val \subseteq
                              {entry_index[self.pack][m] : m \in self.members}

\* A group with a member that resolves and one that was just removed.
C7_Witness ==
    /\ last.op = "remove"
    /\ \E g \in Groups :
           /\ Registered(g)
           /\ \E m \in heap[g].members : get_entry(heap[g].pack, m).ok
           /\ \E m \in heap[g].members : ~get_entry(heap[g].pack, m).ok

\* C8: for a container over the sub-stores [S0, S1], a pack_index i of one
\* of them and an id in that sub-store's index, from_address(container, i,
\* id) succeeds and the SubEntry's index_key is the pair (i, id).
C8_FromAddress ==
    /\ \A i \in DOMAIN SubStores :
           \A id \in DOMAIN entry_index[SubStores[i]] :
               LET r == SubEntry_init("MP", i - 1, id)
               IN  r.ok /\ SubEntry_index_key(r.val) = <<i - 1, id>>
    /\ last.op = "from_address" =>
           /\ last.err = NoErr =>
                  SubEntry_index_key(last.val) = <<last.pack_index, last.entry_id>>
           /\ (/\ last.pack_index + 1 \in DOMAIN SubStores
               /\ last.entry_id \in
                      DOMAIN entry_index[SubStores[last.pack_index + 1]])
                  => last.err = NoErr

\* from_address(container, 1, id) has just been called with an id of S1.
C8_Witness ==
    /\ last.op = "from_address"
    /\ last.pack_index = 1
    /\ last.entry_id \in DOMAIN entry_index[SubStores[2]]
    /\ last.err = NoErr
    /\ last.val.pack_index = 1

\* C9 (as claimed): from_address fails when pack_index is no index of a
\* sub-store of the container, and when the sub-store has no entry of the
\* id ("42" is the id of no entry); no SubEntry is produced then.
C9_AddressChecked ==
    last.op = "from_address" =>
        /\ last.pack_index + 1 \notin DOMAIN SubStores => last.err # NoErr
        /\ last.entry_id = "42" => last.err # NoErr

\* C10: Span's comparison is a strict total order on (begin, end):
\* irreflexive, antisymmetric, transitive, exactly one of a < b, a == b,
\* b < a, and a < b iff a.begin < b.begin, or the begins are equal and
\* a.end < b.end.
C10_SpanTotalOrder ==
    LET a == sp[1]
        b == sp[2]
        c == sp[3]
    IN  /\ ~Span_lt(a, a)
        /\ Span_lt(a, b) => ~Span_lt(b, a)
        /\ Span_lt(a, b) /\ Span_lt(b, c) => Span_lt(a, c)
        /\ Span_lt(a, b) \/ Span_eq(a, b) \/ Span_lt(b, a)
        /\ ~(Span_lt(a, b) /\ Span_eq(a, b))
        /\ ~(Span_lt(b, a) /\ Span_eq(a, b))
        /\ Span_lt(a, b) <=>
               (a.begin < b.begin \/ (a.begin = b.begin /\ a.end < b.end))
        /\ Span_eq(a, b) <=> a = b
        /\ Span_lt(Span(0, 5), Span(0, 6)) /\ Span_lt(Span(0, 6), Span(1, 0))

\* Three Spans in ascending order, the first two told apart by their ends,
\* have been compared.
C10_Witness ==
    /\ last.op = "compare" /\ last.lt /\ ~last.eq
    /\ sp[1].begin = sp[2].begin
    /\ Span_lt(sp[2], sp[3])
    /\ sp[3].end < sp[3].begin

\* C11 (as claimed): every Span that exists, the one an annotation was
\* constructed with and the one set_span installed, has 0 <= begin <= end.
C11_SpansWellFormed ==
    \A h \in Handles :
        IsA(h, "Annotation") =>
            0 <= heap[h].span.begin /\ heap[h].span.begin <= heap[h].span.end

C15_Text ==
    \A h \in Handles :
        IsA(h, "Annotation") =>
            LET self == heap[h]
                r == Annotation_text(self)
                doc == PackText(self.pack)
                at(i) == self.span.begin + i
            IN  /\ Annotation_text([self EXCEPT !.pack = None]) = Err("ValueError")
                /\ r.ok
                /\ \A i \in DOMAIN r.val : r.val[i] = doc[at(i)]
                /\ {at(i) : i \in DOMAIN r.val} =
                       {k \in DOMAIN doc : self.span.begin < k /\ k <= self.span.end}

\* An annotation whose span was replaced and whose text is not empty.
C15_Witness ==
    /\ last = Call("set_span", NoErr)
    /\ \E h \in Handles :
           /\ \E i \in DOMAIN annotations[heap[h].pack] :
                  /\ annotations[heap[h].pack][i].h = h
                  /\ annotations[heap[h].pack][i].span # heap[h].span
           /\ Annotation_text(heap[h]).val # <<>>

\* C16 (as claimed): comparing and hashing links never fails, whether or not
\* their endpoints resolve in the store; two links are equal exactly when
\* their types, stored parent ids and stored child ids are the same, and
\* equal links hash equally.
C16_LinkEquality ==
    \A a, b \in Links :
        LET same == /\ heap[a].cls = heap[b].cls
                    /\ heap[a].parent = heap[b].parent
                    /\ heap[a].child = heap[b].child
        IN  /\ Obj_eq(a, b).ok /\ Obj_hash(a).ok
            /\ Obj_eq(a, b).val <=> same
            /\ same => Obj_hash(a) = Obj_hash(b)

\* C17 (as claimed): two annotations are equal exactly when their types,
\* begins and ends are the same, whatever their ids and owners, and equal
\* annotations have the same hash.
C17_AnnotationEquality ==
    \A a, b \in Handles :
        IsA(a, "Annotation") /\ IsA(b, "Annotation") =>
            LET same == /\ heap[a].cls = heap[b].cls
                        /\ heap[a].span.begin = heap[b].span.begin
                        /\ heap[a].span.end = heap[b].span.end
            IN  /\ Obj_eq(a, b) = Ok(same)
                /\ same => Obj_hash(a) = Obj_hash(b)

\* C18 (as claimed): comparing two SubEntry handles yields a boolean and
\* never fails; they are equal, and hash equally, exactly when their
\* (pack_index, entry_id) pairs are equal.
C18_SubEntryEquality ==
    last.op = "from_address" /\ last.err = NoErr =>
        \A i \in PackIndices, id \in EntryIds :
            LET a == last.val
                b == SubEntry_init("MP", i, id).val
                same == <<a.pack_index, a.entry_id>> = <<i, id>>
            IN  /\ SubEntry_eq(a, b) = Ok(same)
                /\ (SubEntry_hash(a) = SubEntry_hash(b)) <=> same

\* C19 (as claimed): the span queries of the owning store go by the span an
\* annotation has now: a query with a span finds the annotation exactly when
\* its current span lies inside, and no annotation comes before one whose
\* current span is smaller.
C19_QueriesFollowSpan ==
    \A h \in Handles :
        IsA(h, "Annotation") /\ Registered(h) =>
            LET self == heap[h]
                found(b, e) ==
                    \E i \in DOMAIN query_span(self.pack, "Annotation", b, e) :
                        query_span(self.pack, "Annotation", b, e)[i] = h
                q == query_annotations(self.pack, "Annotation")
            IN  /\ \A b, e \in AnnPositions :
                       found(b, e) <=> (b <= self.span.begin /\ self.span.end <= e)
                /\ \A i, j \in DOMAIN q :
                       i < j /\ q[j] = h => ~Span_lt(self.span, heap[q[i]].span)

\* C20 (as claimed): query_entries for an Annotation type yields the
\* registered annotations of the type in non-decreasing order of their spans;
\* for another type it yields the registered entries of the type in the
\* order they were entered.
C20_QueryOrder ==
    \A p \in Packs :
        /\ \A cls \in {"Annotation"} \cup AnnotationClasses :
               LET q == query_entries(p, cls)
               IN  /\ {q[i] : i \in DOMAIN q} = full_scan(p, cls)
                   /\ \A i, j \in DOMAIN q :
                          i < j => /\ q[i] # q[j]
                                   /\ ~Span_lt(heap[q[j]].span, heap[q[i]].span)
        /\ \A cls \in {"Link", "BaseGroup"} \cup LinkClasses \cup GroupClasses :
               LET q == query_entries(p, cls)
               IN  /\ {q[i] : i \in DOMAIN q} = full_scan(p, cls)
                   /\ \A i, j \in DOMAIN q : i < j => q[i] < q[j]

\* C21: an entry is in the id index of its store and in every other index
\* that holds entries of its kind (the span-keyed annotations, the link index
\* when it is on), or in none of them; once removed, get_entry for its id
\* fails with UnknownIdError.
C21_RemovalAtomic ==
    \A h \in Handles :
        LET self == heap[h]
            inSpan == \E i \in DOMAIN annotations[self.pack] :
                          annotations[self.pack][i].h = h
            inLink == \E c \in LinkClasses : h \in link_index[self.pack].links[c]
        IN  /\ inSpan <=> (IsA(h, "Annotation") /\ Registered(h))
            /\ inLink => IsA(h, "Link") /\ Registered(h)
            /\ link_index[self.pack].on /\ IsA(h, "Link") /\ Registered(h)
                   => h \in link_index[self.pack].links[self.cls]
            /\ ~Registered(h) => get_entry(self.pack, self.tid) = Err("UnknownIdError")
            /\ Cardinality({i \in DOMAIN annotations[self.pack] :
                                annotations[self.pack][i].h = h}) <= 1

\* A link has just been removed from a store whose link index is on and
\* still holds an annotation.
C21_Witness ==
    /\ last.op = "remove"
    /\ link_index["S0"].on
    /\ \E h \in Links : ~Registered(h)
    /\ \E h \in Handles : IsA(h, "Annotation") /\ Registered(h)

\* C22: a set_parent(p) / set_child(c) call that succeeds leaves p's / c's
\* tid, a string, as the link's parent / child, and the other endpoint as it
\* was; a later set_span, on p, c or any other annotation, changes no link.
C22_StoresId ==
    /\ [](/\ \A h \in Links, a \in Handles :
               LET sp_ == Link_set_parent(heap[h], heap[a])
                   sc == Link_set_child(heap[h], heap[a])
               IN  /\ sp_.err = NoErr =>
                          sp_.self = [heap[h] EXCEPT !.parent = heap[a].tid]
                   /\ sc.err = NoErr =>
                          sc.self = [heap[h] EXCEPT !.child = heap[a].tid]
          /\ \A h \in Handles :
                 IsA(h, "Annotation") =>
                     Annotation_set_span(heap[h], 1, 2).tid = heap[h].tid)
    /\ [][last'.op = "set_span" => \A h \in Links : heap'[h] = heap[h]]_vars

\* set_span has just been called while a link holds the tid of a registered
\* annotation as its parent and has no child.
C22_Witness ==
    /\ last = Call("set_span", NoErr)
    /\ \E h \in Links, p \in Handles :
           /\ Registered(p) /\ heap[h].parent = heap[p].tid
           /\ heap[h].child = None

\* A CoreferenceMention with the serial number n, as its store registers it.
CorefMention(n) ==
    Entry_set_tid(Annotation_init("S0", "CoreferenceMention", 0, 0).val, n)

\* C23: add_member / add_members raises TypeError (the specification's
\* TypeMismatchError) for an object that is no instance of the group's
\* member_type, and the tid of that object does not become a member; a
\* group's members are tids of instances of its member_type.
C23_MemberTypeGate ==
    /\ \A g \in Groups, as \in CallBatches :
           LET self == heap[g]
               ms == Args(as)
               r == BaseGroup_add_members(self, ms)
               bad == {i \in DOMAIN ms : ~isinstance(ms[i], member_type(self.cls))}
           IN  /\ bad # {} <=> r.err = "TypeError"
               /\ bad = {} <=> r.err = NoErr
               /\ \A m \in r.self.members :
                      \E h \in Handles : /\ heap[h].tid = m
                                         /\ isinstance(heap[h], member_type(self.cls))
    /\ \A g \in Groups, a \in 0..Len(heap) :
           ~isinstance(Arg(a), member_type(heap[g].cls)) =>
               BaseGroup_add_member(heap[g], Arg(a)) = Raised(heap[g], "TypeError")
    /\ \A a \in Handles :
           LET cg == BaseGroup_init("S0", "CoreferenceGroup", << <<CorefMention("0")>> >>).val
               both == BaseGroup_add_members(cg, <<CorefMention("1"), heap[a]>>)
           IN  /\ cg.members = {CorefMention("0").tid}
               /\ BaseGroup_add_member(cg, heap[a]) = Raised(cg, "TypeError")
               /\ both.err = "TypeError"
               /\ heap[a].tid \notin both.self.members
               /\ BaseGroup_init("S0", "CoreferenceGroup", << <<heap[a]>> >>)
                      = Err("TypeError")
    /\ last.op = "add_members" => last.err \in {NoErr, "TypeError"}

\* add_members has just raised TypeError on a group that has a member.
C23_Witness ==
    /\ last.op = "add_members" /\ last.err = "TypeError"
    /\ \E g \in Groups : heap[g].members # {}

MultiLinks == {h \in Handles : IsA(h, "MultiPackLink")}

\* The SubEntry handles of the entries the sub-stores hold.
SubEntries ==
    {SubEntry_init("MP", i - 1, id).val :
         i \in DOMAIN SubStores, id \in EntryIds}

\* C24: set_parent(s) / set_child(s) of a MultiPackLink with a SubEntry s,
\* called directly or by the constructor, leaves s.index_key as the stored
\* endpoint, and get_parent() / get_child() then returns a SubEntry with
\* the pack_index and entry_id of s; so does every link that holds an
\* endpoint.
C24_MultiPackEndpoints ==
    /\ \A s, t \in SubEntries :
           LET made == MultiPackLink_init("MP", "MultiPackLink", <<s>>, <<t>>)
               half == MultiPackLink_init("MP", "MultiPackLink", <<>>, <<t>>)
           IN  /\ made.ok /\ half.ok
               /\ made.val.parent = SubEntry_index_key(s)
               /\ made.val.child = SubEntry_index_key(t)
               /\ half.val.parent = NoKey
               /\ half.val.child = SubEntry_index_key(t)
               /\ MultiPackLink_get_parent(made.val).ok
               /\ SubEntry_index_key(MultiPackLink_get_parent(made.val).val)
                      = <<s.pack_index, s.entry_id>>
               /\ SubEntry_index_key(MultiPackLink_get_child(made.val).val)
                      = <<t.pack_index, t.entry_id>>
    /\ \A h \in MultiLinks, s \in SubEntries :
           LET p == MultiPackLink_set_parent(heap[h], s)
               c == MultiPackLink_set_child(heap[h], s)
           IN  /\ p = Done([heap[h] EXCEPT !.parent = SubEntry_index_key(s)])
               /\ c = Done([heap[h] EXCEPT !.child = SubEntry_index_key(s)])
               /\ MultiPackLink_parent(p.self) = Ok(SubEntry_index_key(s))
               /\ MultiPackLink_child(c.self) = Ok(SubEntry_index_key(s))
               /\ MultiPackLink_get_parent(p.self).ok
               /\ MultiPackLink_get_parent(p.self).val.pack_index = s.pack_index
               /\ MultiPackLink_get_parent(p.self).val.entry_id = s.entry_id
               /\ MultiPackLink_get_child(c.self).ok
               /\ MultiPackLink_get_child(c.self).val.pack_index = s.pack_index
               /\ MultiPackLink_get_child(c.self).val.entry_id = s.entry_id
    /\ \A h \in MultiLinks :
           /\ heap[h].parent # NoKey =>
                  /\ MultiPackLink_get_parent(heap[h]).ok
                  /\ SubEntry_index_key(MultiPackLink_get_parent(heap[h]).val)
                         = heap[h].parent
           /\ heap[h].child # NoKey =>
                  /\ MultiPackLink_get_child(heap[h]).ok
                  /\ SubEntry_index_key(MultiPackLink_get_child(heap[h]).val)
                         = heap[h].child

\* A MultiPackLink constructed with both endpoints, addresses in the second
\* sub-store.
C24_Witness ==
    /\ last = Call("create", NoErr)
    /\ Len(heap) > 0 /\ IsA(Len(heap), "MultiPackLink")
    /\ MultiPackLink_parent(heap[Len(heap)]).ok
    /\ MultiPackLink_child(heap[Len(heap)]).ok
    /\ heap[Len(heap)].parent[1] = 1
    /\ heap[Len(heap)].parent[2] \in DOMAIN entry_index["S1"]

\* C25: two groups of the same type are equal exactly when their sets of
\* member ids are; adding two entries in either order yields equal groups.
C25_GroupEquality ==
    /\ \A g1, g2 \in Groups :
           /\ Obj_eq(g1, g2).ok
           /\ Obj_eq(g1, g2).val <=>
                  (heap[g1].cls = heap[g2].cls /\ heap[g1].members = heap[g2].members)
    /\ \A g \in Groups, a, b \in Handles :
           LET ab == BaseGroup_add_member(BaseGroup_add_member(heap[g], heap[a]).self,
                                          heap[b])
               ba == BaseGroup_add_member(BaseGroup_add_member(heap[g], heap[b]).self,
                                          heap[a])
           IN  /\ ab.err = NoErr /\ ba.err = NoErr
               /\ BaseGroup_eq(ab.self, ba.self)
               /\ ab.self.members = heap[g].members \cup {heap[a].tid, heap[b].tid}
    /\ \A g1, g2 \in Groups, a, b \in Handles :
           heap[g1].members = heap[g2].members =>
               BaseGroup_eq(
                   BaseGroup_add_members(heap[g1], <<heap[a], heap[b]>>).self,
                   BaseGroup_add_members(heap[g2], <<heap[b], heap[a]>>).self)

\* Two groups that took the same two members, an add_members call having
\* just gone through.
C25_Witness ==
    /\ last.op = "add_members" /\ last.err = NoErr
    /\ \E g1, g2 \in Groups :
           /\ g1 # g2
           /\ heap[g1].members = heap[g2].members
           /\ num_members(heap[g1]) = 2

\* C26: a set_parent / set_child call that raises TypeError, on a Link or
\* on a MultiPackLink, leaves the link, its stored parent and its stored
\* child, as they were before the call.
C26_FailedSetKeepsLink ==
    /\ [](/\ \A h \in Links, a \in 0..Len(heap) :
               LET p == Link_set_parent(heap[h], Arg(a))
                   c == Link_set_child(heap[h], Arg(a))
               IN  /\ p.err # NoErr => p = Raised(heap[h], "TypeError")
                   /\ c.err # NoErr => c = Raised(heap[h], "TypeError")
          /\ \A h \in MultiLinks, x \in MArgs :
                 LET p == MultiPackLink_set_parent(heap[h], MArg(x))
                     c == MultiPackLink_set_child(heap[h], MArg(x))
                 IN  /\ p.err # NoErr => p = Raised(heap[h], "TypeError")
                     /\ c.err # NoErr => c = Raised(heap[h], "TypeError"))
    /\ [][(last'.op \in {"set_parent", "set_child"} /\ last'.err # NoErr) =>
              /\ last'.err = "TypeError"
              /\ heap' = heap]_vars

\* set_child has just failed on a link that holds a child.
C26_Witness ==
    /\ last = Call("set_child", "TypeError")
    /\ \E h \in Links : heap[h].child # None
    /\ MultiLinks = {}

\* C27: when add_members comes to an object that fails the type check it
\* raises TypeError, and the members then are the members before the call
\* and the tids of the entries in front of that object in the iterable;
\* nothing at or behind it is added.
C27_PartialAdd ==
    /\ \A g \in Groups, as \in BatchCalls :
           LET self == heap[g]
               ms == Args(as)
               r == BaseGroup_add_members(self, ms)
               bad == {i \in DOMAIN ms : ~isinstance(ms[i], member_type(self.cls))}
               first == CHOOSE i \in bad : \A j \in bad : i <= j
           IN  bad # {} =>
                   /\ r.err = "TypeError"
                   /\ r.self.members =
                          self.members \cup {ms[i].tid : i \in 1..(first - 1)}
                   /\ r.self = [self EXCEPT !.members = r.self.members]
    /\ \A a \in Handles :
           LET cg == BaseGroup_init("S0", "CoreferenceGroup", << <<CorefMention("0")>> >>).val
               r == BaseGroup_add_members(
                        cg, <<CorefMention("1"), heap[a], CorefMention("2")>>)
           IN  /\ r.err = "TypeError"
               /\ r.self.members = {CorefMention("0").tid, CorefMention("1").tid}
    /\ \A g \in Groups : heap[g].members = added[g]

\* add_members has just raised after it took one entry.
C27_Witness ==
    /\ last.op = "add_members" /\ last.err = "TypeError" /\ last.taken = 1
    /\ \E g \in Groups : num_members(heap[g]) = 1

\* C28: on a MultiPackLink whose parent (child) is not set, the property
\* parent (child) and get_parent() (get_child()) raise IncompleteEntryError;
\* none of them yields a value unless the endpoint is set.
C28_UnsetEndpoint ==
    /\ \A h \in MultiLinks :
           LET self == heap[h]
           IN  /\ self.parent = NoKey =>
                      /\ MultiPackLink_parent(self) = Err("IncompleteEntryError")
                      /\ MultiPackLink_get_parent(self) = Err("IncompleteEntryError")
               /\ self.child = NoKey =>
                      /\ MultiPackLink_child(self) = Err("IncompleteEntryError")
                      /\ MultiPackLink_get_child(self) = Err("IncompleteEntryError")
               /\ MultiPackLink_parent(self).ok \/ MultiPackLink_get_parent(self).ok
                      => self.parent # NoKey
               /\ MultiPackLink_child(self).ok \/ MultiPackLink_get_child(self).ok
                      => self.child # NoKey
    /\ LET new == MultiPackLink_init("MP", "MultiPackLink", <<>>, <<>>)
       IN  /\ new.ok
           /\ MultiPackLink_parent(new.val) = Err("IncompleteEntryError")
           /\ MultiPackLink_child(new.val) = Err("IncompleteEntryError")
           /\ MultiPackLink_get_parent(new.val) = Err("IncompleteEntryError")
           /\ MultiPackLink_get_child(new.val) = Err("IncompleteEntryError")
    /\ \A s \in SubEntries :
           LET half == MultiPackLink_init("MP", "MultiPackLink", <<>>, <<s>>).val
           IN  /\ MultiPackLink_get_parent(half) = Err("IncompleteEntryError")
               /\ MultiPackLink_get_child(half).ok

\* A registered MultiPackLink whose child has just been set and whose parent
\* never was.
C28_Witness ==
    /\ last = Call("set_child", NoErr)
    /\ \E h \in MultiLinks :
           /\ Registered(h)
           /\ heap[h].parent = NoKey
           /\ heap[h].child # NoKey

PackIds == 1..Len(pipe.packs)
Count(seq, c) == Cardinality({x \in DOMAIN seq : seq[x] = c})

\* C29 (as claimed): process_dataset yields every pack the reader produces
\* exactly once: no pack is yielded twice, a pack read is waiting in
\* current_packs or has been yielded, and when the generator has ended
\* every pack has been yielded and current_packs is empty.
C29_EachPackOnce ==
    /\ \A c \in PackIds :
           Count(pipe.yielded, c) + Count(pipe.current_packs, c) = 1
    /\ pipe.pc \in {"done", "raised"} =>
           /\ \A c \in PackIds : Count(pipe.yielded, c) = 1
           /\ pipe.current_packs = <<>>

\* C30 (as claimed): the processors that take a pack in are processors[0],
\* processors[1], ... in this order, none twice and none left out; all but
\* the last of them have finished the pack; a pack that has been yielded
\* went through all of them.
C30_ProcessorOrder ==
    \A c \in PackIds :
        LET a == pipe.applied[c]
        IN  /\ \A x \in DOMAIN a : a[x] = x
            /\ pipe.processors_index[pipe.packs[c].process_state] + 1 >= Len(a) - 1
            /\ Count(pipe.yielded, c) = 1 => Len(a) = Len(pipe.processors)

====
